---------------------------- MODULE Spec2Model ----------------------------
(***************************************************************************)
(* Model of teaset.py: a depth-bounded exhaustive search for the tea-set   *)
(* sliding puzzle on a 3x2 table, the tree of moves it builds through      *)
(* anytree parent links, and the extraction of the solutions from the      *)
(* leaves of that tree.                                                    *)
(*                                                                         *)
(* A Step object is named by the sequence of moves made from the root call *)
(* down to the call that constructed it (each Step is constructed exactly  *)
(* once, by the list comprehension of the call that considers it), the     *)
(* root Step.nonestep() is the empty sequence.  The anytree parent links   *)
(* are kept explicitly, in the order in which they are assigned.           *)
(***************************************************************************)
EXTENDS Integers, Sequences, FiniteSets, TLC

\* ---------------------------------------------------------------- constants

TABLE_WIDTH == 3
TABLE_HEIGHT == 2
MAX_STEPS == 18

\* Largest step cap for which the search is run from every well-formed board.
MaxSmallSteps == 4
\* Number of moves of a free walk over the boards that are remembered.
MaxTrail == 2

\* class Item, in declaration (= iteration) order
ItemOrder == <<"CUP_1", "CUP_2", "CUP_3", "POT", "MILK_JUG">>
Item == {ItemOrder[k] : k \in 1..Len(ItemOrder)}

\* class Direction, in declaration (= iteration) order, and the enum values
DirectionOrder == <<"LEFT", "RIGHT", "DOWN", "UP">>
Direction == {DirectionOrder[k] : k \in 1..Len(DirectionOrder)}
DirectionValue ==
    [d \in Direction |->
        CASE d = "LEFT" -> <<-1, 0>>
          [] d = "RIGHT" -> <<1, 0>>
          [] d = "DOWN" -> <<0, -1>>
          [] d = "UP" -> <<0, 1>>]

\* A reverse that negates the horizontal component only.
reverse_x_only(d) ==
    CHOOSE e \in Direction :
        DirectionValue[e] = <<0 - DirectionValue[d][1], DirectionValue[d][2]>>

\* Direction.reverse: the enum member whose value is the negated vector
\* (Direction(...) is a lookup by value and raises if there is none).
reverse(d) ==
    CHOOSE e \in Direction :
        DirectionValue[e] = <<0 - DirectionValue[d][1], 0 - DirectionValue[d][2]>>

\* ---------------------------------------------------------------- Step

None == "None"
nonestep == [item |-> None, direction |-> None]
Step(item, direction) == [item |-> item, direction |-> direction]

\* Step.__bool__: a step is falsy iff it equals Step.nonestep()
StepBool(step) == step # nonestep

\* A reversal test that compares the directions without reversing one.
is_reversed_for_same_direction(self, other) ==
    /\ other.item = self.item
    /\ self.direction = other.direction

\* Step.is_reversed_for
is_reversed_for(self, other) ==
    /\ other.item = self.item
    /\ self.direction = reverse(other.direction)

\* ---------------------------------------------------------------- Position

Position(x, y) == <<x, y>>

\* Position.__add__
PositionAdd(self, other) == <<self[1] + other[1], self[2] + other[2]>>

\* A bounds test that takes the upper bounds as inclusive.
is_within_rect_inclusive(self, xmax, ymax) ==
    /\ 0 <= self[1] /\ self[1] <= xmax
    /\ 0 <= self[2] /\ self[2] <= ymax

\* Position.is_within_rect with the defaults xmin = 0, ymin = 0
is_within_rect(self, xmax, ymax) ==
    /\ 0 <= self[1] /\ self[1] < xmax
    /\ 0 <= self[2] /\ self[2] < ymax

\* ---------------------------------------------------------------- Table

\* A vacancy test that is content with one item being elsewhere.
is_position_vacant_any(configuration, position) ==
    \E i \in DOMAIN configuration : configuration[i] # position

\* Table.is_position_vacant
is_position_vacant(configuration, position) ==
    \A i \in DOMAIN configuration : configuration[i] # position

\* Table.is_step_possible
is_step_possible(configuration, step) ==
    LET new_position ==
            PositionAdd(configuration[step.item], DirectionValue[step.direction])
    IN  /\ is_within_rect(new_position, TABLE_WIDTH, TABLE_HEIGHT)
        /\ is_position_vacant(configuration, new_position)

\* Table.fromstep: a copy of the configuration with one entry replaced
fromstep(configuration, step) ==
    [configuration EXCEPT
        ![step.item] = PositionAdd(@, DirectionValue[step.direction])]

INITIAL_TABLE ==
    [i \in Item |->
        CASE i = "CUP_1" -> Position(0, 1)
          [] i = "CUP_2" -> Position(0, 0)
          [] i = "CUP_3" -> Position(1, 0)
          [] i = "POT" -> Position(2, 1)
          [] i = "MILK_JUG" -> Position(2, 0)]

\* A goal test that looks at the pot only.
is_result_table_pot_only(configuration) ==
    configuration["POT"] = Position(2, 0)

\* is_result_table
is_result_table(configuration) ==
    /\ configuration["POT"] = Position(2, 0)
    /\ configuration["MILK_JUG"] = Position(2, 1)

\* ---------------------------------------------------------------- search

\* The pairs with the two for clauses exchanged: directions outermost.
AllStepsDirectionMajor ==
    [k \in 1..(Len(ItemOrder) * Len(DirectionOrder)) |->
        Step(ItemOrder[((k - 1) % Len(ItemOrder)) + 1],
             DirectionOrder[((k - 1) \div Len(ItemOrder)) + 1])]

\* The pairs enumerated twice over.
AllStepsTwice ==
    [k \in 1..(2 * Len(ItemOrder) * Len(DirectionOrder)) |->
        Step(ItemOrder[(((k - 1) \div Len(DirectionOrder)) % Len(ItemOrder)) + 1],
             DirectionOrder[((k - 1) % Len(DirectionOrder)) + 1])]

\* The (item, direction) pairs in the order of the two nested for clauses.
AllSteps ==
    [k \in 1..(Len(ItemOrder) * Len(DirectionOrder)) |->
        Step(ItemOrder[((k - 1) \div Len(DirectionOrder)) + 1],
             DirectionOrder[((k - 1) % Len(DirectionOrder)) + 1])]

\* A filter that wants a last move to compare with: `prev_step and not ...`.
IsCandidateNeedsPrev(prev_table, prev_step, step) ==
    /\ is_step_possible(prev_table, step)
    /\ (StepBool(prev_step) /\ ~is_reversed_for(step, prev_step))

\* The filter of the list comprehension of do_next_step.
IsCandidate(prev_table, prev_step, step) ==
    /\ is_step_possible(prev_table, step)
    /\ (~StepBool(prev_step) \/ ~is_reversed_for(step, prev_step))

\* steps = [...] of do_next_step
Candidates(prev_table, prev_step) ==
    SelectSeq(AllSteps, LAMBDA step : IsCandidate(prev_table, prev_step, step))

\* A cutoff one call too early, and a cutoff one call too late.
IsCutoffEarly(prev_steps_count, cap) == prev_steps_count >= cap - 1
IsCutoffLate(prev_steps_count, cap) == prev_steps_count > cap

\* if prev_steps_count == MAX_STEPS: return False
IsCutoff(prev_steps_count, cap) == prev_steps_count = cap

\* A loop that is left after the first recursive call that succeeds.
BreakAfterSuccess(i, n) == n + 1

\* The loop goes on with the next candidate after a recursive call that
\* succeeded (no break there); it is left only by the break at a goal board.
\* i is the index of the current candidate, n the number of candidates.
NextCandidate(i, n) == i + 1

\* ---------------------------------------------------------------- state

VARIABLES
    max_steps,  \* the step cap of this run (MAX_STEPS)
    initial,    \* the board given to the top-level call
    stack,      \* the active calls of do_next_step, outermost first
    tree,       \* the parent links set so far, in the order of assignment
    ret,        \* <<v>>: the call that just ended returned v; <<>> otherwise
    pc,         \* "search", "extract", "done"; "walk", "returned" for the walk
    result,     \* the list `result` of __main__
    table,      \* the board of the free walk over the boards
    trail       \* the last moves of the free walk, with the boards they left

vars == <<max_steps, initial, stack, tree, ret, pc, result, table, trail>>

root_step == <<>>

\* The Step object named by a node: its item and direction.
StepOf(node) == IF node = root_step THEN nonestep ELSE node[Len(node)]

\* The node of the Step constructed for `step` in a call whose prev_step is
\* the node `prev`.
NodeOf(prev, step) == Append(prev, step)

Frame(prev_table, prev_step, prev_steps_count) ==
    [prev_table |-> prev_table, prev_step |-> prev_step,
     prev_steps_count |-> prev_steps_count,
     steps |-> <<>>, i |-> 1, success |-> FALSE, at |-> "start"]

Top == stack[Len(stack)]
Pop == SubSeq(stack, 1, Len(stack) - 1)
SetTop(f) == [stack EXCEPT ![Len(stack)] = f]

\* step.parent = prev_step (anytree appends the node to the parent's children)
Attach(links, node, parent) == Append(links, [node |-> node, parent |-> parent])

\* ---------------------------------------------------------------- anytree

\* node.parent: the node it was attached to, root_step's parent is None
HasParent(links, node) == \E k \in 1..Len(links) : links[k].node = node
ParentOf(links, node) ==
    links[CHOOSE k \in 1..Len(links) : links[k].node = node].parent

\* node.children: the nodes attached to it, in the order of attachment
Children(links, node) ==
    LET attached == SelectSeq(links, LAMBDA link : link.parent = node)
    IN  [k \in 1..Len(attached) |-> attached[k].node]

\* node.is_leaf
is_leaf(links, node) == Len(Children(links, node)) = 0

\* node.path: the nodes from the root of its tree down to the node
RECURSIVE PathOf(_, _)
PathOf(links, node) ==
    IF HasParent(links, node)
    THEN Append(PathOf(links, ParentOf(links, node)), node)
    ELSE <<node>>

\* node.depth: the number of edges up to the root of its tree
RECURSIVE DepthOf(_, _)
DepthOf(links, node) ==
    IF HasParent(links, node) THEN DepthOf(links, ParentOf(links, node)) + 1
    ELSE 0

\* node.leaves: PreOrderIter filtered by is_leaf
RECURSIVE PreOrder(_, _)
RECURSIVE PreOrderAll(_, _)
PreOrder(links, node) == <<node>> \o PreOrderAll(links, Children(links, node))
PreOrderAll(links, nodes) ==
    IF nodes = <<>> THEN <<>>
    ELSE PreOrder(links, Head(nodes)) \o PreOrderAll(links, Tail(nodes))
LeavesOf(links, node) ==
    SelectSeq(PreOrder(links, node), LAMBDA n : is_leaf(links, n))

\* ---------------------------------------------------------------- extraction

\* (leaf.depth - 1, leaf)
Entry(links, leaf) == <<DepthOf(links, leaf) - 1, leaf>>

\* A sort that puts an entry before the entries of the same key.
RECURSIVE InsertByKeyStrict(_, _)
InsertByKeyStrict(sorted, e) ==
    IF sorted = <<>> THEN <<e>>
    ELSE IF sorted[Len(sorted)][1] < e[1] THEN Append(sorted, e)
         ELSE Append(InsertByKeyStrict(SubSeq(sorted, 1, Len(sorted) - 1), e),
                     sorted[Len(sorted)])

\* list.sort(key=itemgetter(0)): a stable sort on the first component
RECURSIVE InsertByKey(_, _)
InsertByKey(sorted, e) ==
    IF sorted = <<>> THEN <<e>>
    ELSE IF sorted[Len(sorted)][1] <= e[1] THEN Append(sorted, e)
         ELSE Append(InsertByKey(SubSeq(sorted, 1, Len(sorted) - 1), e),
                     sorted[Len(sorted)])
RECURSIVE SortByKey(_)
SortByKey(list) ==
    IF list = <<>> THEN <<>>
    ELSE InsertByKey(SortByKey(SubSeq(list, 1, Len(list) - 1)), list[Len(list)])

\* result = [(leaf.depth - 1, leaf) for leaf in root_step.leaves]; result.sort
ExtractResult(links) ==
    LET leaves == LeavesOf(links, root_step)
    IN  SortByKey([k \in 1..Len(leaves) |-> Entry(links, leaves[k])])

\* The moves printed for an entry r: [s for s in r[1].path if s]
MovesOf(links, leaf) ==
    LET path == PathOf(links, leaf)
        steps == [k \in 1..Len(path) |-> StepOf(path[k])]
    IN  SelectSeq(steps, StepBool)

\* ---------------------------------------------------------------- actions

\* Where the run goes once the call on top of the stack has ended.
PcAfterReturn == IF Len(stack) = 1 THEN "extract" ELSE "search"

\* do_next_step, lines 132-133: the depth cutoff
Cutoff ==
    /\ pc = "search" /\ Len(stack) > 0 /\ Top.at = "start"
    /\ IsCutoff(Top.prev_steps_count, max_steps)
    /\ stack' = Pop
    /\ ret' = <<FALSE>>
    /\ pc' = PcAfterReturn
    /\ UNCHANGED <<max_steps, initial, tree, result, table, trail>>

\* do_next_step, lines 135-148: the candidate moves and success = False
Generate ==
    /\ pc = "search" /\ Len(stack) > 0 /\ Top.at = "start"
    /\ ~IsCutoff(Top.prev_steps_count, max_steps)
    /\ stack' = SetTop([Top EXCEPT
                           !.steps = Candidates(Top.prev_table, StepOf(Top.prev_step)),
                           !.i = 1, !.success = FALSE, !.at = "loop"])
    /\ UNCHANGED <<max_steps, initial, tree, ret, pc, result, table, trail>>

\* A goal-reaching candidate after which the loop goes on: no break.
GoalStepNoBreak ==
    /\ pc = "search" /\ Len(stack) > 0 /\ Top.at = "loop"
    /\ Top.i <= Len(Top.steps)
    /\ LET step == Top.steps[Top.i]
           new_table == fromstep(Top.prev_table, step)
       IN  /\ is_result_table(new_table)
           /\ tree' = Attach(tree, NodeOf(Top.prev_step, step), Top.prev_step)
           /\ stack' = SetTop([Top EXCEPT !.success = TRUE, !.i = Top.i + 1])
    /\ UNCHANGED <<max_steps, initial, ret, pc, result, table, trail>>

\* do_next_step, lines 149-154: the candidate reaches the goal; break
GoalStep ==
    /\ pc = "search" /\ Len(stack) > 0 /\ Top.at = "loop"
    /\ Top.i <= Len(Top.steps)
    /\ LET step == Top.steps[Top.i]
           new_table == fromstep(Top.prev_table, step)
       IN  /\ is_result_table(new_table)
           /\ tree' = Attach(tree, NodeOf(Top.prev_step, step), Top.prev_step)
           /\ stack' = SetTop([Top EXCEPT !.success = TRUE, !.at = "return"])
    /\ UNCHANGED <<max_steps, initial, ret, pc, result, table, trail>>

\* A recursive call on the caller's own dictionary: fromstep without copy().
RecurseNoCopy ==
    /\ pc = "search" /\ Len(stack) > 0 /\ Top.at = "loop"
    /\ Top.i <= Len(Top.steps)
    /\ LET step == Top.steps[Top.i]
           new_table == fromstep(Top.prev_table, step)
       IN  /\ ~is_result_table(new_table)
           /\ stack' = Append(SetTop([Top EXCEPT !.at = "wait",
                                                 !.prev_table = new_table]),
                              Frame(new_table, NodeOf(Top.prev_step, step),
                                    Top.prev_steps_count + 1))
    /\ UNCHANGED <<max_steps, initial, tree, ret, pc, result, table, trail>>

\* do_next_step, line 155: the recursive call on the board after the move
Recurse ==
    /\ pc = "search" /\ Len(stack) > 0 /\ Top.at = "loop"
    /\ Top.i <= Len(Top.steps)
    /\ LET step == Top.steps[Top.i]
           new_table == fromstep(Top.prev_table, step)
       IN  /\ ~is_result_table(new_table)
           /\ stack' = Append(SetTop([Top EXCEPT !.at = "wait"]),
                              Frame(new_table, NodeOf(Top.prev_step, step),
                                    Top.prev_steps_count + 1))
    /\ UNCHANGED <<max_steps, initial, tree, ret, pc, result, table, trail>>

\* A return from the recursive call that attaches the move whatever the call
\* returned.
AfterRecurseAlwaysAttach ==
    /\ pc = "search" /\ Len(stack) > 0 /\ Top.at = "wait" /\ ret # <<>>
    /\ LET step == Top.steps[Top.i]
       IN  /\ tree' = Attach(tree, NodeOf(Top.prev_step, step), Top.prev_step)
           /\ stack' = SetTop([Top EXCEPT
                                  !.success = Top.success \/ ret[1], !.at = "loop",
                                  !.i = Top.i + 1])
    /\ ret' = <<>>
    /\ UNCHANGED <<max_steps, initial, pc, result, table, trail>>

\* do_next_step, lines 155-157: the recursive call has returned
AfterRecurse ==
    /\ pc = "search" /\ Len(stack) > 0 /\ Top.at = "wait" /\ ret # <<>>
    /\ LET step == Top.steps[Top.i]
       IN  IF ret[1]
           THEN /\ tree' = Attach(tree, NodeOf(Top.prev_step, step), Top.prev_step)
                /\ stack' = SetTop([Top EXCEPT
                                       !.success = TRUE, !.at = "loop",
                                       !.i = NextCandidate(Top.i, Len(Top.steps))])
           ELSE /\ tree' = tree
                /\ stack' = SetTop([Top EXCEPT !.at = "loop", !.i = Top.i + 1])
    /\ ret' = <<>>
    /\ UNCHANGED <<max_steps, initial, pc, result, table, trail>>

\* do_next_step, line 159: return success, after the break or the last candidate
Return ==
    /\ pc = "search" /\ Len(stack) > 0
    /\ \/ Top.at = "return"
       \/ Top.at = "loop" /\ Top.i > Len(Top.steps)
    /\ stack' = Pop
    /\ ret' = <<Top.success>>
    /\ pc' = PcAfterReturn
    /\ UNCHANGED <<max_steps, initial, tree, result, table, trail>>

\* __main__, lines 169-170: the sorted list of (length, leaf) pairs
Extract ==
    /\ pc = "extract"
    /\ result' = ExtractResult(tree)
    /\ pc' = "done"
    /\ UNCHANGED <<max_steps, initial, stack, tree, ret, table, trail>>

\* One legal move on the board of the free walk: is_step_possible, fromstep.
Walk ==
    /\ pc = "walk"
    /\ \E item \in Item, direction \in Direction :
        LET step == Step(item, direction)
            entry == [from |-> table, step |-> step]
        IN  /\ is_step_possible(table, step)
            /\ table' = fromstep(table, step)
            /\ trail' = IF Len(trail) < MaxTrail THEN Append(trail, entry)
                        ELSE Append(Tail(trail), entry)
    /\ UNCHANGED <<max_steps, initial, stack, tree, ret, pc, result>>

\* Table.fromstep called with any move, possible or not, on a board of the
\* free walk: it makes no test and returns the board with the item moved.
CallFromstep ==
    /\ pc = "walk"
    /\ \E item \in Item, direction \in Direction :
        LET step == Step(item, direction)
        IN  /\ table' = fromstep(table, step)
            /\ trail' = <<[from |-> table, step |-> step]>>
    /\ pc' = "returned"
    /\ UNCHANGED <<max_steps, initial, stack, tree, ret, result>>

\* ---------------------------------------------------------------- specifications

\* The well-formed boards: five items on pairwise distinct cells of the table.
Cells == {Position(x, y) : x \in 0..(TABLE_WIDTH - 1), y \in 0..(TABLE_HEIGHT - 1)}
Tables ==
    {t \in [Item -> Cells] : \A i, j \in Item : i # j => t[i] # t[j]}

\* root_step = Step.nonestep(); do_next_step(INITIAL_TABLE, root_step)
InitSearch(board, cap) ==
    /\ max_steps = cap
    /\ initial = board
    /\ stack = <<Frame(board, root_step, 0)>>
    /\ tree = <<>>
    /\ ret = <<>>
    /\ pc = "search"
    /\ result = <<>>
    /\ table = board
    /\ trail = <<>>

\* The program as shipped.
Init == InitSearch(INITIAL_TABLE, MAX_STEPS)

\* The puzzle instances: the shipped board under every step cap up to
\* MAX_STEPS, and every well-formed board under a small step cap.
InitInstances ==
    \/ \E cap \in 0..MAX_STEPS : InitSearch(INITIAL_TABLE, cap)
    \/ \E board \in Tables, cap \in 0..MaxSmallSteps : InitSearch(board, cap)

\* The steps of do_next_step, and the whole program.
Search == Cutoff \/ Generate \/ GoalStep \/ Recurse \/ AfterRecurse \/ Return
Next == Search \/ Extract

Spec == Init /\ [][Next]_vars

SpecInstances == InitInstances /\ [][Next]_vars

\* The interpreter runs the single thread of the search on, step after step.
FairSpecInstances == InitInstances /\ [][Next]_vars /\ WF_vars(Search)

\* The free walk over the boards, from the initial board.
InitWalk ==
    /\ max_steps = MAX_STEPS
    /\ initial = INITIAL_TABLE
    /\ stack = <<>>
    /\ tree = <<>>
    /\ ret = <<>>
    /\ pc = "walk"
    /\ result = <<>>
    /\ table = INITIAL_TABLE
    /\ trail = <<>>

NextWalk == Walk

SpecWalk == InitWalk /\ [][NextWalk]_vars

\* The free walk, ended by one call of fromstep with an arbitrary move.
NextMisuse == Walk \/ CallFromstep

SpecMisuse == InitWalk /\ [][NextMisuse]_vars

\* ---------------------------------------------------------------- properties

\* The notions the properties are stated in: the table, its goal and what a
\* legal move is, independent of the methods of Table.
OnTable(p) == p[1] \in 0..2 /\ p[2] \in 0..1
TargetOf(board, move) ==
    <<board[move.item][1] + DirectionValue[move.direction][1],
      board[move.item][2] + DirectionValue[move.direction][2]>>
LegalOn(board, move) ==
    /\ OnTable(TargetOf(board, move))
    /\ ~\E i \in Item : board[i] = TargetOf(board, move)
Moved(board, move) ==
    [i \in Item |-> IF i = move.item THEN TargetOf(board, move) ELSE board[i]]
GoalBoard(board) == board["POT"] = <<2, 0>> /\ board["MILK_JUG"] = <<2, 1>>
Opposite(m1, m2) ==
    /\ m1.item = m2.item
    /\ DirectionValue[m1.direction][1] + DirectionValue[m2.direction][1] = 0
    /\ DirectionValue[m1.direction][2] + DirectionValue[m2.direction][2] = 0
RECURSIVE BoardAfter(_, _)
BoardAfter(board, moves) ==
    IF moves = <<>> THEN board
    ELSE BoardAfter(Moved(board, Head(moves)), Tail(moves))
AllLegal(board, moves) ==
    \A j \in 1..Len(moves) :
        LegalOn(BoardAfter(board, SubSeq(moves, 1, j - 1)), moves[j])

\* The solutions extraction lists: the length and the moves of each entry.
Done == pc = "done"
Lengths == [k \in 1..Len(result) |-> result[k][1]]
Listed == [k \in 1..Len(result) |-> MovesOf(tree, result[k][2])]

\* C1 (soundness): once extraction is done, the moves listed for every entry
\* replay from the initial board with each move legal on the board it is
\* applied to, and the board after the last move is a goal board.
Soundness ==
    Done => \A k \in 1..Len(result) :
                /\ AllLegal(initial, Listed[k])
                /\ GoalBoard(BoardAfter(initial, Listed[k]))

SoundnessWitness ==
    /\ Done /\ Len(result) >= 2
    /\ \E k \in 1..Len(result) : Len(Listed[k]) = 17
    /\ \E k \in 1..Len(result) : Len(Listed[k]) = 18

\* C2 (reported length): once extraction is done, the length reported for
\* every entry is the number of moves listed for it.
ReportedLengthIsMoveCount ==
    Done => \A k \in 1..Len(result) : Lengths[k] = Len(Listed[k])

\* The solutions of an instance, enumerated breadth first and without the
\* engine: the sequences that extend `moves` by one legal, non-undoing move,
\* and the sequences that reach a goal board with their last move and not
\* before, within n more moves.
OpenOrSolved(board, moves) ==
    {Append(moves, m) : m \in
        {m \in {Step(i, d) : i \in Item, d \in Direction} :
            /\ LegalOn(BoardAfter(board, moves), m)
            /\ (moves # <<>> => ~Opposite(m, moves[Len(moves)]))}}
RECURSIVE SolutionsFrom(_, _, _)
SolutionsFrom(board, open, n) ==
    IF n = 0 \/ open = {} THEN {}
    ELSE LET next == UNION {OpenOrSolved(board, p) : p \in open}
             solved == {p \in next : GoalBoard(BoardAfter(board, p))}
         IN  solved \cup SolutionsFrom(board, next \ solved, n - 1)
AllSolutions(board, cap) == SolutionsFrom(board, {<<>>}, cap)

EmptyResultWhenNoSolution ==
    (Done /\ AllSolutions(initial, max_steps) = {}) =>
        /\ Children(tree, root_step) = <<>>
        /\ result = <<>>

\* C5 (reference instance): on the shipped board with MAX_STEPS = 18 the
\* search yields a solution and the smallest reported length is odd and at
\* least 3.
ReferenceShortestIsOdd ==
    (Done /\ initial = INITIAL_TABLE /\ max_steps = 18) =>
        /\ Children(tree, root_step) # <<>>
        /\ Len(result) >= 1
        /\ \E k \in 1..Len(result) :
            /\ \A j \in 1..Len(result) : Lengths[k] <= Lengths[j]
            /\ Lengths[k] % 2 = 1
            /\ Lengths[k] >= 3

\* Some sequence of 1 to n moves from board, legal move by move, the first not
\* undoing `last` and none undoing the move before it, ends on a goal board.
RECURSIVE Solvable(_, _, _)
Solvable(board, last, n) ==
    /\ n > 0
    /\ \E i \in Item, d \in Direction :
        LET m == Step(i, d)
        IN  /\ LegalOn(board, m)
            /\ (last # nonestep => ~Opposite(m, last))
            /\ (GoalBoard(Moved(board, m)) \/ Solvable(Moved(board, m), m, n - 1))

\* The call on top of the stack ends with this step.
CallEnds == pc = "search" /\ Len(stack) > 0 /\ Len(stack') < Len(stack)

\* C6 (the returned boolean): a call do_next_step(board, last, n) returns
\* True exactly when some sequence of 1 to max_steps - n moves from board,
\* legal move by move, the first not undoing last and none undoing the move
\* before it, ends on a goal board; when the top-level call returns, the root
\* has a child exactly when it returns True, and no path of the tree has more
\* than max_steps moves.
ReturnsTrueIffSolvable ==
    [][CallEnds =>
        /\ ret' = <<Solvable(Top.prev_table, StepOf(Top.prev_step),
                             max_steps - Top.prev_steps_count)>>
        /\ (Len(stack) = 1 =>
                /\ (ret'[1] <=> Children(tree', root_step) # <<>>)
                /\ \A k \in 1..Len(tree') :
                       Len(MovesOf(tree', tree'[k].node)) <= max_steps)]_vars

\* A goal first reached with the very last move the cap allows is found.
ReturnsTrueWitness ==
    /\ pc = "extract" /\ ret = <<TRUE>>
    /\ initial = INITIAL_TABLE /\ max_steps = 17
    /\ \E k \in 1..Len(tree) : Len(MovesOf(tree, tree[k].node)) = max_steps

\* C7 (no immediate reversal): no listed solution has two consecutive moves
\* of which the second moves the same item in the opposite direction.
NoImmediateReversal ==
    Done => \A k \in 1..Len(result) :
                \A j \in 1..(Len(Listed[k]) - 1) :
                    ~Opposite(Listed[k][j + 1], Listed[k][j])

\* A listed solution of three moves on a board whose first move could be
\* undone at once.
NoImmediateReversalWitness ==
    /\ Done
    /\ \E k \in 1..Len(result) :
        /\ Len(Listed[k]) = 3
        /\ LegalOn(Moved(initial, Listed[k][1]),
                   Step(Listed[k][1].item, reverse(Listed[k][1].direction)))

\* C8 (board invariant): on every board of the free walk all five items are
\* present, on pairwise distinct cells of the 3x2 table, so that exactly one
\* of the six cells is empty.
BoardInvariant ==
    pc = "walk" =>
        /\ DOMAIN table = Item
        /\ \A i, j \in Item : i # j => table[i] # table[j]
        /\ \A i \in Item : 0 <= table[i][1] /\ table[i][1] < 3
                           /\ 0 <= table[i][2] /\ table[i][2] < 2
        /\ Cardinality({c \in Cells : \A i \in Item : table[i] # c}) = 1

BoardInvariantWitness ==
    /\ pc = "walk" /\ Len(trail) >= 2
    /\ table # INITIAL_TABLE
    /\ \A i \in Item : table[i] # INITIAL_TABLE[i]

\* C9 (legality round trip): on every board b of the free walk and for every
\* move (item, direction) legal on b, the move (item, reverse(direction)) is
\* legal on fromstep(b, move) and applying it gives b again; reverse maps
\* every direction to a direction and is its own inverse.
RoundTrip ==
    pc = "walk" =>
        /\ \A i \in Item, d \in Direction :
            is_step_possible(table, Step(i, d)) =>
                LET after == fromstep(table, Step(i, d))
                    back == Step(i, reverse(d))
                IN  /\ is_step_possible(after, back)
                    /\ fromstep(after, back) = table
        /\ \A d \in Direction :
            /\ \E e \in Direction :
                DirectionValue[e] = <<0 - DirectionValue[d][1], 0 - DirectionValue[d][2]>>
            /\ reverse(d) \in Direction
            /\ reverse(reverse(d)) = d

\* The walk has just made a move and then its reverse.
RoundTripWitness ==
    /\ pc = "walk" /\ Len(trail) >= 2
    /\ LET m1 == trail[Len(trail) - 1]
           m2 == trail[Len(trail)]
       IN  /\ m2.step = Step(m1.step.item, reverse(m1.step.direction))
           /\ table = m1.from

\* The k-th active call has steps count k - 1, at most max_steps, and a call
\* at the cap has generated no candidate.
DepthBounded ==
    pc = "search" =>
        /\ Len(stack) <= max_steps + 1
        /\ \A k \in 1..Len(stack) :
            /\ stack[k].prev_steps_count = k - 1
            /\ 0 <= stack[k].prev_steps_count
            /\ stack[k].prev_steps_count <= max_steps
            /\ (stack[k].prev_steps_count = max_steps => stack[k].steps = <<>>)

\* The call on top of the stack has reached the cap.
AtCap ==
    /\ pc = "search" /\ Len(stack) > 0
    /\ Top.prev_steps_count = max_steps

\* C10 (termination and depth bound): every run of the search ends (the
\* top-level call returns and the program goes on to extraction); the k-th
\* active call has steps count k - 1, which is at most max_steps, so at most
\* max_steps + 1 calls are nested; a call whose steps count is max_steps
\* returns False having generated and applied no move.
TerminatesWithinDepthBound ==
    /\ <>(pc # "search")
    /\ []DepthBounded
    /\ [][AtCap => /\ stack' = Pop
                   /\ ret' = <<FALSE>>
                   /\ tree' = tree]_vars

TerminationWitness ==
    /\ pc = "search" /\ max_steps = MAX_STEPS
    /\ Len(stack) = max_steps + 1
    /\ Top.prev_steps_count = max_steps

\* The nodes that have been attached, and the board a node stands for: the
\* initial board after the moves on the path from the root to the node.
Nodes == {tree[k].node : k \in 1..Len(tree)}
BoardOf(node) == BoardAfter(initial, MovesOf(tree, node))
SearchEnded == pc \in {"extract", "done"}

\* C12 (tree shape): once the search has ended, every node of the tree hangs
\* under the root, and the board after the moves on its path from the root is
\* a goal board exactly when the node is a leaf.
TreeShape ==
    SearchEnded => \A node \in Nodes :
        /\ PathOf(tree, node)[1] = root_step
        /\ (GoalBoard(BoardOf(node)) <=> is_leaf(tree, node))

\* A finished tree with inner nodes and leaves, after dead ends were discarded.
TreeShapeWitness ==
    /\ SearchEnded /\ initial = INITIAL_TABLE /\ max_steps = MAX_STEPS
    /\ \E node \in Nodes : is_leaf(tree, node)
    /\ \E node \in Nodes : ~is_leaf(tree, node)

\* The place of a move in the enumeration: items in the order CUP_1, CUP_2,
\* CUP_3, POT, MILK_JUG and, for each item, directions in the order LEFT,
\* RIGHT, DOWN, UP.
ItemRank(i) ==
    CASE i = "CUP_1" -> 0 [] i = "CUP_2" -> 1 [] i = "CUP_3" -> 2
      [] i = "POT" -> 3 [] i = "MILK_JUG" -> 4
DirectionRank(d) ==
    CASE d = "LEFT" -> 0 [] d = "RIGHT" -> 1 [] d = "DOWN" -> 2 [] d = "UP" -> 3
MoveRank(m) == 4 * ItemRank(m.item) + DirectionRank(m.direction)
Ascending(moves) ==
    \A j \in 1..(Len(moves) - 1) : MoveRank(moves[j]) < MoveRank(moves[j + 1])
ChildMoves(node) ==
    [k \in 1..Len(Children(tree, node)) |-> StepOf(Children(tree, node)[k])]

\* C13 (candidates and child order): the candidates of every call that has
\* generated them are exactly the moves legal on its board that do not undo
\* its last move (every legal move when the last move is the null move), in
\* the order of the enumeration; the children of every node are in that order.
CandidateOrder ==
    /\ \A k \in 1..Len(stack) :
        stack[k].at # "start" =>
            LET f == stack[k]
                last == StepOf(f.prev_step)
            IN  /\ Ascending(f.steps)
                /\ {f.steps[j] : j \in 1..Len(f.steps)} =
                       {m \in {Step(i, d) : i \in Item, d \in Direction} :
                           /\ LegalOn(f.prev_table, m)
                           /\ (f.prev_step # root_step => ~Opposite(m, last))}
    /\ \A node \in Nodes \cup {root_step} : Ascending(ChildMoves(node))

\* A call with two candidates after one was filtered as a reversal, and a node
\* with two children.
CandidateOrderWitness ==
    /\ pc = "search" /\ Len(stack) > 1 /\ Top.at = "loop"
    /\ Len(Top.steps) = 2
    /\ \E i \in Item, d \in Direction :
        /\ LegalOn(Top.prev_table, Step(i, d))
        /\ Opposite(Step(i, d), StepOf(Top.prev_step))
    /\ \E node \in Nodes : Len(Children(tree, node)) = 2

\* The place of a node in the order of discovery: the search attaches a leaf
\* at the moment it finds the solution that ends there.
FoundAt(node) == CHOOSE k \in 1..Len(tree) : tree[k].node = node

\* C14 (order of the extracted solutions): the reported lengths never
\* decrease along the list, and of two entries with the same reported length
\* the one found first by the search, which is the one whose leaf comes first
\* in the pre-order of the tree, is listed first.
ExtractionOrder ==
    Done =>
        \A j, k \in 1..Len(result) :
            j < k =>
                /\ Lengths[j] <= Lengths[k]
                /\ Lengths[j] = Lengths[k] =>
                       /\ FoundAt(result[j][2]) < FoundAt(result[k][2])
                       /\ \E a, b \in 1..Len(PreOrder(tree, root_step)) :
                           /\ a < b
                           /\ PreOrder(tree, root_step)[a] = result[j][2]
                           /\ PreOrder(tree, root_step)[b] = result[k][2]

\* The shorter solutions were found after the longer ones and are listed
\* first, and two solutions have the same length.
ExtractionOrderWitness ==
    /\ Done /\ Len(result) = 4
    /\ Lengths[1] = Lengths[2] /\ Lengths[2] < Lengths[3]
    /\ FoundAt(result[3][2]) < FoundAt(result[1][2])

\* A board with five items on pairwise distinct cells of the table.
WellFormed(board) ==
    /\ DOMAIN board = Item
    /\ \A i \in Item : OnTable(board[i])
    /\ \A i, j \in Item : i # j => board[i] # board[j]

\* C15 (the search applies legal moves only): the board of every call is
\* well formed, and every move the call applies with fromstep, its candidates,
\* is possible on that board and gives a well-formed board.
SearchAppliesLegalMoves ==
    \A k \in 1..Len(stack) :
        /\ WellFormed(stack[k].prev_table)
        /\ \A j \in 1..Len(stack[k].steps) :
            /\ is_step_possible(stack[k].prev_table, stack[k].steps[j])
            /\ LegalOn(stack[k].prev_table, stack[k].steps[j])
            /\ WellFormed(fromstep(stack[k].prev_table, stack[k].steps[j]))

\* A move was applied on a branch that turned out to be a dead end.
SearchAppliesLegalMovesWitness ==
    /\ pc = "search" /\ Len(stack) >= 2 /\ Top.at = "loop"
    /\ Top.i = 2 /\ ~Top.success /\ Len(Top.steps) >= 2

\* C16 (fail fast on misuse): a call of fromstep that returns a board was
\* made with a move legal on the given board; with any other move the call
\* fails and returns no board.
FromstepFailsFast ==
    pc = "returned" =>
        LegalOn(trail[Len(trail)].from, trail[Len(trail)].step)

\* C17 (frame of a move): the board fromstep gives for a move differs from
\* the board it was given in the position of the moved item only, which is
\* the old position plus the vector of the direction; a step of the search
\* never changes the board of a call that stays active, and the board of a
\* new call is the caller's board with the one item moved.
FrameOfMove ==
    /\ [](\A k \in 1..Len(stack) : \A j \in 1..Len(stack[k].steps) :
            LET b == stack[k].prev_table
                m == stack[k].steps[j]
            IN  /\ fromstep(b, m)[m.item] = TargetOf(b, m)
                /\ \A i \in Item \ {m.item} : fromstep(b, m)[i] = b[i])
    /\ [][pc = "search" =>
            /\ \A k \in 1..Len(stack) :
                k <= Len(stack') => stack'[k].prev_table = stack[k].prev_table
            /\ Len(stack') > Len(stack) =>
                stack'[Len(stack')].prev_table =
                    Moved(Top.prev_table, Top.steps[Top.i])]_vars

\* A call goes on with its second candidate after a branch three calls deep
\* was explored below its first.
FrameOfMoveWitness ==
    /\ pc = "search" /\ Len(stack) >= 2 /\ Top.at = "loop" /\ Top.i = 2
    /\ Top.prev_table # initial
    /\ max_steps - Top.prev_steps_count >= 3

\* The least number of legal moves from a board to a goal board, at most cap,
\* by breadth-first search over the boards; -1 when there is none within cap.
LegalMoves(board) ==
    {m \in {Step(i, d) : i \in Item, d \in Direction} : LegalOn(board, m)}
RECURSIVE Distance(_, _, _, _)
Distance(frontier, seen, n, cap) ==
    IF \E b \in frontier : GoalBoard(b) THEN n
    ELSE IF n = cap \/ frontier = {} THEN 0 - 1
    ELSE LET next == UNION {{Moved(b, m) : m \in LegalMoves(b)} : b \in frontier}
         IN  Distance(next \ seen, seen \cup next, n + 1, cap)
GoalDistance(board, cap) == Distance({board}, {board}, 0, cap)

\* C18 (the shortest solution is found): when the least number d of legal
\* moves from the initial board to a goal board is between 1 and max_steps,
\* some listed solution has exactly d moves and none has fewer.
ShortestSolutionFound ==
    Done =>
        LET d == GoalDistance(initial, max_steps)
        IN  d >= 1 =>
                /\ \E k \in 1..Len(result) :
                    /\ Len(Listed[k]) = d
                    /\ PathOf(tree, result[k][2])[1] = root_step
                    /\ Len(PathOf(tree, result[k][2])) = d + 1
                /\ \A k \in 1..Len(result) : Len(Listed[k]) >= d

\* The shortest solution of the shipped instance next to a longer one.
ShortestSolutionFoundWitness ==
    /\ Done /\ initial = INITIAL_TABLE /\ max_steps = MAX_STEPS
    /\ GoalDistance(initial, max_steps) = 17
    /\ \E k \in 1..Len(result) : Len(Listed[k]) = 18

\* The parents of the tree, and the children of a parent that are leaves.
Parents == {tree[k].parent : k \in 1..Len(tree)}
LeafChildren(node) ==
    {k \in 1..Len(Children(tree, node)) : is_leaf(tree, Children(tree, node)[k])}

\* C19 (early exit at a goal-reaching move): no call applies, explores or
\* attaches a candidate that comes after a candidate of its own that reaches
\* a goal board; every node has at most one leaf child, and a leaf child is
\* the last child of its parent.
EarlyExitAtGoal ==
    /\ \A k \in 1..Len(stack) :
        LET f == stack[k]
            tried == IF f.at = "wait" THEN f.i
                     ELSE IF f.at = "loop" THEN f.i - 1 ELSE 0
        IN  /\ \A j \in 1..tried :
                j <= Len(f.steps) => ~GoalBoard(Moved(f.prev_table, f.steps[j]))
            /\ f.at = "return" =>
                /\ GoalBoard(Moved(f.prev_table, f.steps[f.i]))
                /\ \A j \in (f.i + 1)..Len(f.steps) :
                    ~HasParent(tree, NodeOf(f.prev_step, f.steps[j]))
    /\ \A node \in Parents :
        /\ Cardinality(LeafChildren(node)) <= 1
        /\ LeafChildren(node) \subseteq {Len(Children(tree, node))}

\* A call left its loop at a goal-reaching move with candidates still untried.
EarlyExitAtGoalWitness ==
    /\ pc = "search" /\ Len(stack) > 0
    /\ Top.at = "return" /\ Top.i < Len(Top.steps)

\* C20 (no duplicate solutions): no node has two children with the same move,
\* and no two entries of the extracted list have the same sequence of moves.
NoDuplicateSolutions ==
    /\ \A node \in Parents :
        \A j, k \in 1..Len(ChildMoves(node)) :
            j # k => ChildMoves(node)[j] # ChildMoves(node)[k]
    /\ Done => \A j, k \in 1..Len(result) : j # k => Listed[j] # Listed[k]

\* Two listed solutions that start with the same move.
NoDuplicateSolutionsWitness ==
    /\ Done /\ Len(result) >= 2
    /\ \E j, k \in 1..Len(result) :
        j # k /\ Listed[j][1] = Listed[k][1]

====
